---- MODULE Spec2Model ----
(***************************************************************************)
(* Model of src/main.py: the weather forecast visualizer.                  *)
(* main() runs four stages in sequence: credential resolution              *)
(* (get_api_key), forecast retrieval (fetch_weather_data), forecast        *)
(* transformation (process_forecast_data) and rendering (ensure_plots_dir  *)
(* and the four plot_* functions).  Python values are tagged records; a    *)
(* dict carries the set of keys it has, so that d[k] on a missing key      *)
(* raises KeyError as in Python.  Strings that the code trims are          *)
(* sequences of one-character strings.                                     *)
(***************************************************************************)
EXTENDS Integers, Sequences, FiniteSets, TLC

VARIABLES pc, environ, stdin, api_key, city_name, server, nRequests,
          weather_data, processed_data, dirExists, files, plotCalls,
          stdout, uncaught

vars == <<pc, environ, stdin, api_key, city_name, server, nRequests,
          weather_data, processed_data, dirExists, files, plotCalls,
          stdout, uncaught>>

(* ---------------------------- bounds ----------------------------------- *)

\* longest forecast list the server returns in the model
MaxEntries == 3

(* ------------------------- Python values ------------------------------- *)

None == [type |-> "NoneType"]

\* a local name that has not been assigned yet
Unbound == [type |-> "unbound"]

Str(cs) == [type |-> "str", chars |-> cs]

\* Python truthiness, as used by `not x` and `if x:`
Truthy(v) ==
    CASE v.type = "NoneType" -> FALSE
      [] v.type = "str"      -> Len(v.chars) > 0
      [] v.type = "dict"     -> v.keys # {}
      [] v.type = "list"     -> Len(v.items) > 0
      [] v.type = "tuple"    -> Len(v.items) > 0
      [] OTHER               -> FALSE

Whitespace == {" ", "\t", "\n"}

RECURSIVE lstrip(_)
lstrip(cs) ==
    IF cs = <<>> THEN <<>>
    ELSE IF Head(cs) \in Whitespace THEN lstrip(Tail(cs)) ELSE cs

RECURSIVE rstrip(_)
rstrip(cs) ==
    IF cs = <<>> THEN <<>>
    ELSE IF cs[Len(cs)] \in Whitespace THEN rstrip(SubSeq(cs, 1, Len(cs) - 1))
    ELSE cs

\* str.strip()
strip(cs) == rstrip(lstrip(cs))

(* ---------------------------- constants -------------------------------- *)

TemperatureFile == "temperature_forecast.png"
HumidityFile    == "humidity_forecast.png"
WindFile        == "wind_speed_forecast.png"
PieFile         == "weather_conditions_pie_chart.png"

\* offset of the local time zone used by datetime.fromtimestamp
TZOffsetSeconds == 1 * 3600

(* --------------------------- environment ------------------------------- *)

\* values os.getenv("OPENWEATHERMAP_API_KEY") can give
EnvKeyValues == {None, Str(<<>>), Str(<<" ">>), Str(<<"A", "B", "C">>)}

\* values os.getenv("CITY_NAME") can give
EnvCityValues == {None, Str(<<>>), Str(<<"P">>)}

\* lines input() can return
StdinLines == {<<>>, <<" ">>, <<" ", "K", " ">>, <<"K">>}

(* --------------------------- API responses ----------------------------- *)

MainBlock(t, f, h) ==
    [keys |-> {"temp", "feels_like", "humidity"}, temp |-> t, feels_like |-> f, humidity |-> h]

WindBlock(s) == [keys |-> {"speed"}, speed |-> s]

Cond(m) == [keys |-> {"id", "main", "description"}, main |-> m]

PyList(s) == [type |-> "list", items |-> s]

AllEntryKeys == {"dt", "main", "wind", "weather"}

EntryRec(ks, d, m, w, c) ==
    [keys |-> ks, dt |-> d, main |-> m, wind |-> w, weather |-> c]

\* well-formed forecast entries
WellFormedEntries ==
    { EntryRec(AllEntryKeys, 100, MainBlock(10, 8, 50), WindBlock(3), PyList(<<Cond("Rain")>>)),
      EntryRec(AllEntryKeys, 200, MainBlock(12, 11, 60), WindBlock(5),
               PyList(<<Cond("Clear"), Cond("Rain")>>)),
      EntryRec(AllEntryKeys, 300, MainBlock(9, 7, 70), WindBlock(4), PyList(<<>>)),
      EntryRec(AllEntryKeys, 400, MainBlock(12, 12, 40), WindBlock(2), None) }

\* entries lacking a field the transformation reads
MalformedEntries ==
    { EntryRec(AllEntryKeys \ {"dt"}, 0, MainBlock(10, 8, 50), WindBlock(3), PyList(<<Cond("Rain")>>)),
      EntryRec(AllEntryKeys \ {"main"}, 100, [keys |-> {}, temp |-> 0, feels_like |-> 0, humidity |-> 0],
               WindBlock(3), PyList(<<>>)),
      EntryRec(AllEntryKeys, 100, [keys |-> {"temp", "humidity"}, temp |-> 10, feels_like |-> 0, humidity |-> 50],
               WindBlock(3), PyList(<<>>)),
      EntryRec(AllEntryKeys \ {"wind"}, 100, MainBlock(10, 8, 50), [keys |-> {}, speed |-> 0],
               PyList(<<Cond("Clear")>>)),
      EntryRec(AllEntryKeys \ {"weather"}, 100, MainBlock(10, 8, 50), WindBlock(3), PyList(<<>>)) }

Entries == WellFormedEntries \cup MalformedEntries

RECURSIVE SeqsUpTo(_, _)
SeqsUpTo(S, n) ==
    IF n = 0 THEN {<<>>}
    ELSE LET shorter == SeqsUpTo(S, n - 1)
         IN shorter \cup {Append(s, e) : s \in {t \in shorter : Len(t) = n - 1}, e \in S}

Dict(ks, l) == [type |-> "dict", keys |-> ks, list |-> l]

\* JSON objects the forecast endpoint can answer with
Responses ==
    {Dict({}, <<>>), Dict({"cod", "message"}, <<>>)}
        \cup {Dict({"cod", "list", "city"}, l) : l \in SeqsUpTo(Entries, MaxEntries)}

\* what response.json() raises on an undecodable body: requests >= 2.27
\* raises requests.exceptions.JSONDecodeError (both a RequestException and a
\* json.JSONDecodeError), earlier versions raise json.JSONDecodeError
JSONErrorClasses ==
    { {"requests.JSONDecodeError", "InvalidJSONError", "RequestException", "json.JSONDecodeError", "ValueError"},
      {"json.JSONDecodeError", "ValueError"} }

NoBody == Dict({}, <<>>)

Outcome(k, s, b, cls, j) == [type |-> "outcome", kind |-> k, status |-> s, body |-> b, jsonError |-> cls, json |-> j]

\* what the network and the server can do to the one GET
ServerOutcomes ==
    {Outcome("network_failure", 0, "none", {}, NoBody)}
        \cup {Outcome("http", s, "any", {}, NoBody) : s \in {401, 404, 500}}
        \cup {Outcome("http", 200, "garbage", cls, NoBody) : cls \in JSONErrorClasses}
        \cup {Outcome("http", 200, "json", {}, j) : j \in Responses}

(* ------------------------ get_api_key ---------------------------------- *)

\* get_api_key without the second emptiness check
get_api_key_NoExit(envval, line) ==
    LET prompted == ~Truthy(envval)
        key == IF prompted THEN Str(strip(line)) ELSE envval
    IN [exited |-> FALSE, value |-> key, prompted |-> prompted,
        out |-> IF prompted THEN <<"key_not_found">> ELSE <<>>]

\* envval: os.getenv's result; line: what input() returns if it is called
get_api_key(envval, line) ==
    LET prompted == ~Truthy(envval)
        key == IF prompted THEN Str(strip(line)) ELSE envval
    IN [exited |-> ~Truthy(key), value |-> key, prompted |-> prompted,
        out |-> (IF prompted THEN <<"key_not_found">> ELSE <<>>)
                \o (IF ~Truthy(key) THEN <<"key_required">> ELSE <<>>)]

(* ---------------------- fetch_weather_data ----------------------------- *)

NoException == [raised |-> FALSE, classes |-> {}]
Exception(cls) == [raised |-> TRUE, classes |-> cls]

\* the try body: requests.get, raise_for_status, response.json
TryBody(o) ==
    IF o.kind = "network_failure"
    THEN [exc |-> Exception({"ConnectionError", "RequestException"}), value |-> None]
    ELSE IF o.status >= 400 /\ o.status < 600
    THEN [exc |-> Exception({"HTTPError", "RequestException"}), value |-> None]
    ELSE IF o.body = "garbage"
    THEN [exc |-> Exception(o.jsonError), value |-> None]
    ELSE [exc |-> NoException, value |-> o.json]

FetchResult(v, e, d) == [value |-> v, exc |-> e, out |-> d, requests |-> 1]

\* fetch_weather_data without the RequestException handler
fetch_weather_data_NoRequestHandler(key, city, o) ==
    LET t == TryBody(o)
    IN IF ~t.exc.raised THEN FetchResult(t.value, NoException, <<>>)
       ELSE IF "HTTPError" \in t.exc.classes
       THEN FetchResult(None, NoException,
                <<IF o.status = 401 THEN "http_401"
                  ELSE IF o.status = 404 THEN "http_404" ELSE "http_error">>)
       ELSE IF "json.JSONDecodeError" \in t.exc.classes
       THEN FetchResult(None, NoException, <<"decode_error">>)
       ELSE FetchResult(None, t.exc, <<>>)

\* one GET, then the except clauses in the order they are written
fetch_weather_data(key, city, o) ==
    LET t == TryBody(o)
    IN IF ~t.exc.raised THEN FetchResult(t.value, NoException, <<>>)
       ELSE IF "HTTPError" \in t.exc.classes
       THEN FetchResult(None, NoException,
                <<IF o.status = 401 THEN "http_401"
                  ELSE IF o.status = 404 THEN "http_404" ELSE "http_error">>)
       ELSE IF "RequestException" \in t.exc.classes
       THEN FetchResult(None, NoException, <<"request_error">>)
       ELSE IF "json.JSONDecodeError" \in t.exc.classes
       THEN FetchResult(None, NoException, <<"decode_error">>)
       ELSE FetchResult(None, t.exc, <<>>)

(* --------------------- process_forecast_data --------------------------- *)

\* datetime.datetime.fromtimestamp: epoch seconds to a naive local datetime
fromtimestamp(ts) == [type |-> "datetime", local |-> ts + TZOffsetSeconds]

\* the first key the loop body fails to find in the entry, "" if none
MissingKey(entry) ==
    IF "dt" \notin entry.keys THEN "dt"
    ELSE IF "main" \notin entry.keys THEN "main"
    ELSE IF "temp" \notin entry.main.keys THEN "temp"
    ELSE IF "feels_like" \notin entry.main.keys THEN "feels_like"
    ELSE IF "humidity" \notin entry.main.keys THEN "humidity"
    ELSE IF "wind" \notin entry.keys THEN "wind"
    ELSE IF "speed" \notin entry.wind.keys THEN "speed"
    ELSE IF "weather" \notin entry.keys THEN "weather"
    ELSE IF Truthy(entry.weather) /\ "main" \notin entry.weather.items[1].keys THEN "main"
    ELSE ""

\* the label appended for an entry whose "weather" field is present
ConditionLabel(entry) ==
    IF Truthy(entry.weather) /\ Len(entry.weather.items) > 0
    THEN entry.weather.items[1].main
    ELSE "N/A"

EmptyColumns == <<<<>>, <<>>, <<>>, <<>>, <<>>, <<>>>>

\* one iteration of the loop, for an entry that has every key
AppendEntry_Prepend(cols, entry) ==
    << <<fromtimestamp(entry.dt)>> \o cols[1],
       <<entry.main.temp>> \o cols[2],
       <<entry.main.feels_like>> \o cols[3],
       <<entry.main.humidity>> \o cols[4],
       <<entry.wind.speed>> \o cols[5],
       <<ConditionLabel(entry)>> \o cols[6] >>

AppendEntry(cols, entry) ==
    << Append(cols[1], fromtimestamp(entry.dt)),
       Append(cols[2], entry.main.temp),
       Append(cols[3], entry.main.feels_like),
       Append(cols[4], entry.main.humidity),
       Append(cols[5], entry.wind.speed),
       Append(cols[6], ConditionLabel(entry)) >>

RECURSIVE ProcessLoop(_, _)
\* the for loop over data["list"]: stops at the first KeyError
ProcessLoop(list, cols) ==
    IF list = <<>> THEN [exc |-> "", cols |-> cols]
    ELSE IF MissingKey(Head(list)) # "" THEN [exc |-> "KeyError", cols |-> cols]
    ELSE ProcessLoop(Tail(list), AppendEntry(cols, Head(list)))

Tuple(cols) == [type |-> "tuple", items |-> cols]

\* process_forecast_data that treats a missing "list" as an empty list
process_forecast_data_NoListCheck(data) ==
    LET r == ProcessLoop(IF "list" \in data.keys THEN data.list ELSE <<>>, EmptyColumns)
    IN IF r.exc # "" THEN [exc |-> r.exc, value |-> None, out |-> <<>>]
       ELSE [exc |-> "", value |-> Tuple(r.cols), out |-> <<>>]

process_forecast_data(data) ==
    IF ~Truthy(data) \/ "list" \notin data.keys
    THEN [exc |-> "", value |-> None, out |-> <<"invalid_data">>]
    ELSE LET r == ProcessLoop(data.list, EmptyColumns)
         IN IF r.exc # "" THEN [exc |-> r.exc, value |-> None, out |-> <<>>]
            ELSE [exc |-> "", value |-> Tuple(r.cols), out |-> <<>>]

(* --------------------------- rendering --------------------------------- *)

\* ensure_plots_dir that never creates the directory
ensure_plots_dir_NoCreate(exists) == [exists |-> exists, out |-> <<>>]

\* exists: os.path.exists(PLOTS_DIR) when it is called
ensure_plots_dir(exists) ==
    [exists |-> TRUE, out |-> IF ~exists THEN <<"created_dir">> ELSE <<>>]

\* pie chart skipped when every label is "N/A"
PieSkipped_AllNA(labels) == \A i \in 1..Len(labels) : labels[i] = "N/A"

\* the guard of plot_weather_conditions_pie: `not weather_descriptions_main`
PieSkipped(labels) == Len(labels) = 0

SeqRange(s) == {s[i] : i \in 1..Len(s)}

\* Counter(weather_descriptions_main)
ConditionCounts(labels) ==
    [l \in SeqRange(labels) |-> Cardinality({i \in 1..Len(labels) : labels[i] = l})]

(* ----------------------------- state ----------------------------------- *)

Init ==
    /\ pc = "get_api_key"
    /\ environ \in [OPENWEATHERMAP_API_KEY : EnvKeyValues, CITY_NAME : EnvCityValues]
    /\ stdin = None
    /\ api_key = Unbound
    /\ city_name = Unbound
    /\ server = Unbound
    /\ nRequests = 0
    /\ weather_data = Unbound
    /\ processed_data = Unbound
    /\ dirExists \in BOOLEAN
    /\ files = {}
    /\ plotCalls = <<>>
    /\ stdout = <<>>
    /\ uncaught = ""

\* main: api_key = get_api_key()
GetApiKey ==
    /\ pc = "get_api_key"
    /\ \E line \in StdinLines :
          LET r == get_api_key(environ.OPENWEATHERMAP_API_KEY, line)
          IN /\ stdin' = IF r.prompted THEN Str(line) ELSE None
             /\ stdout' = stdout \o r.out
             /\ IF r.exited
                THEN /\ pc' = "exited"
                     /\ UNCHANGED api_key
                ELSE /\ pc' = "get_city"
                     /\ api_key' = r.value
    /\ UNCHANGED <<environ, city_name, server, nRequests, weather_data,
                   processed_data, dirExists, files, plotCalls, uncaught>>

\* main: city_name = os.getenv("CITY_NAME"); return if empty
GetCity ==
    /\ pc = "get_city"
    /\ city_name' = environ.CITY_NAME
    /\ IF ~Truthy(environ.CITY_NAME)
       THEN /\ stdout' = Append(stdout, "city_empty")
            /\ pc' = "done"
       ELSE /\ stdout' = Append(stdout, "fetching")
            /\ pc' = "fetch"
    /\ UNCHANGED <<environ, stdin, api_key, server, nRequests, weather_data,
                   processed_data, dirExists, files, plotCalls, uncaught>>

\* main: weather_data = fetch_weather_data(api_key, city_name)
Fetch ==
    /\ pc = "fetch"
    /\ \E o \in ServerOutcomes :
          LET r == fetch_weather_data(api_key, city_name, o)
          IN /\ server' = o
             /\ nRequests' = nRequests + r.requests
             /\ stdout' = stdout \o r.out
             /\ IF r.exc.raised
                THEN /\ pc' = "crashed"
                     /\ uncaught' = "RequestsError"
                     /\ UNCHANGED weather_data
                ELSE /\ pc' = "process"
                     /\ weather_data' = r.value
                     /\ UNCHANGED uncaught
    /\ UNCHANGED <<environ, stdin, api_key, city_name, processed_data, dirExists,
                   files, plotCalls>>

\* main: `if weather_data:` ... processed_data = process_forecast_data(...)
Process ==
    /\ pc = "process"
    /\ IF ~Truthy(weather_data)
       THEN /\ stdout' = Append(stdout, "could_not_retrieve")
            /\ pc' = "done"
            /\ UNCHANGED <<processed_data, uncaught>>
       ELSE LET r == process_forecast_data(weather_data)
            IN IF r.exc # ""
               THEN /\ pc' = "crashed"
                    /\ uncaught' = r.exc
                    /\ stdout' = Append(stdout, "fetched_ok") \o r.out
                    /\ UNCHANGED processed_data
               ELSE /\ processed_data' = r.value
                    /\ UNCHANGED uncaught
                    /\ IF ~Truthy(r.value)
                       THEN /\ stdout' = Append(stdout, "fetched_ok") \o r.out
                                            \o <<"failed_to_process">>
                            /\ pc' = "done"
                       ELSE /\ stdout' = Append(stdout, "fetched_ok") \o r.out
                            /\ pc' = "ensure_dir"
    /\ UNCHANGED <<environ, stdin, api_key, city_name, server, nRequests,
                   weather_data, dirExists, files, plotCalls>>

\* main: ensure_plots_dir()
EnsureDir ==
    /\ pc = "ensure_dir"
    /\ LET r == ensure_plots_dir(dirExists)
       IN /\ dirExists' = r.exists
          /\ stdout' = stdout \o r.out \o <<"generating">>
    /\ pc' = "plot_temperature"
    /\ UNCHANGED <<environ, stdin, api_key, city_name, server, nRequests,
                   weather_data, processed_data, files, plotCalls, uncaught>>

\* plt.savefig(os.path.join(PLOTS_DIR, file)): fails when the directory is absent
SaveFig(call, file, saved, next) ==
    /\ plotCalls' = Append(plotCalls, call)
    /\ IF dirExists
       THEN /\ files' = files \cup {file}
            /\ stdout' = Append(stdout, saved)
            /\ pc' = next
            /\ UNCHANGED uncaught
       ELSE /\ pc' = "crashed"
            /\ uncaught' = "FileNotFoundError"
            /\ UNCHANGED <<files, stdout>>

Cols == processed_data.items

\* main: plot_temperature_forecast(timestamps, temps, feels_like_temps, city_name)
PlotTemperature ==
    /\ pc = "plot_temperature"
    /\ SaveFig([op |-> "temperature", timestamps |-> Cols[1], temps |-> Cols[2],
                feels_like_temps |-> Cols[3], city |-> city_name],
               TemperatureFile, "saved_temperature", "plot_humidity")
    /\ UNCHANGED <<environ, stdin, api_key, city_name, server, nRequests,
                   weather_data, processed_data, dirExists>>

\* main: plot_humidity_forecast(timestamps, humidities, city_name)
PlotHumidity ==
    /\ pc = "plot_humidity"
    /\ SaveFig([op |-> "humidity", timestamps |-> Cols[1], humidities |-> Cols[4],
                city |-> city_name],
               HumidityFile, "saved_humidity", "plot_wind")
    /\ UNCHANGED <<environ, stdin, api_key, city_name, server, nRequests,
                   weather_data, processed_data, dirExists>>

\* main: plot_wind_speed_forecast(timestamps, wind_speeds, city_name)
PlotWind ==
    /\ pc = "plot_wind"
    /\ SaveFig([op |-> "wind", timestamps |-> Cols[1], wind_speeds |-> Cols[5],
                city |-> city_name],
               WindFile, "saved_wind", "plot_pie")
    /\ UNCHANGED <<environ, stdin, api_key, city_name, server, nRequests,
                   weather_data, processed_data, dirExists>>

\* main: plot_weather_conditions_pie(weather_descriptions, city_name), then
\* the closing messages
PlotPie ==
    /\ pc = "plot_pie"
    /\ IF PieSkipped(Cols[6])
       THEN /\ plotCalls' = Append(plotCalls, [op |-> "pie", labels |-> Cols[6], city |-> city_name])
            /\ stdout' = stdout \o <<"nothing_to_plot", "finished">>
            /\ pc' = "done"
            /\ UNCHANGED <<files, uncaught>>
       ELSE /\ plotCalls' = Append(plotCalls, [op |-> "pie", labels |-> Cols[6], city |-> city_name,
                                                  sizes |-> ConditionCounts(Cols[6])])
            /\ IF dirExists
               THEN /\ files' = files \cup {PieFile}
                    /\ stdout' = stdout \o <<"saved_pie", "finished">>
                    /\ pc' = "done"
                    /\ UNCHANGED uncaught
               ELSE /\ pc' = "crashed"
                    /\ uncaught' = "FileNotFoundError"
                    /\ UNCHANGED <<files, stdout>>
    /\ UNCHANGED <<environ, stdin, api_key, city_name, server, nRequests,
                   weather_data, processed_data, dirExists>>

Next ==
    \/ GetApiKey
    \/ GetCity
    \/ Fetch
    \/ Process
    \/ EnsureDir
    \/ PlotTemperature
    \/ PlotHumidity
    \/ PlotWind
    \/ PlotPie

Spec == Init /\ [][Next]_vars

(* ------------------------ auxiliary predicates ------------------------- *)

HasList(d) == d.type = "dict" /\ "list" \in d.keys

\* the transformation has returned (normally) in this run
Transformed == processed_data.type # "unbound"

AllFour == {TemperatureFile, HumidityFile, WindFile, PieFile}

FetchDiagnostics == {"http_401", "http_404", "http_error", "request_error", "decode_error"}

IsFetchDiagnostic(m) == m \in FetchDiagnostics

\* the failure class of the server's behaviour, "none" on success
FailureClass(o) ==
    IF o.kind = "network_failure" THEN "network"
    ELSE IF o.status = 401 THEN "authentication"
    ELSE IF o.status = 404 THEN "not_found"
    ELSE IF o.status >= 400 THEN "http_other"
    ELSE IF o.body = "garbage" THEN "decode"
    ELSE "none"

\* the diagnostic branch that belongs to a failure class
BranchOf(c) ==
    CASE c = "authentication" -> "http_401"
      [] c = "not_found"      -> "http_404"
      [] c = "http_other"     -> "http_error"
      [] c = "network"        -> "request_error"
      [] c = "decode"         -> "decode_error"

Fetched == server.type = "outcome"

FetchFailed == Fetched /\ FailureClass(server) # "none"

NothingRendered == files = {} /\ plotCalls = <<>> /\ "created_dir" \notin SeqRange(stdout)

(* ------------------------------ claims --------------------------------- *)

\* C1: if the response lacks a forecast list or the forecast list is empty,
\* process_forecast_data returns None and no plot operation is invoked.
C1_NoListOrEmptyListGivesNoChart ==
    (Transformed /\ (~HasList(weather_data) \/ Len(weather_data.list) = 0))
        => (processed_data.type = "NoneType" /\ plotCalls = <<>> /\ files = {})

\* the label the claim C2 prescribes for an entry
PrescribedLabel(entry) ==
    IF "weather" \notin entry.keys THEN "N/A"
    ELSE IF entry.weather.type # "list" THEN "N/A"
    ELSE IF Len(entry.weather.items) = 0 THEN "N/A"
    ELSE entry.weather.items[1].main

\* an entry that has every field except, possibly, "weather"
WellFormedButWeather(entry) ==
    MissingKey([entry EXCEPT !.keys = @ \cup {"weather"}]) = ""

\* C2: for every forecast entry the derived label is "N/A" when the condition
\* list is empty or missing (no "weather" field), else the first condition's
\* "main".
C2_LabelIsNAWhenEmptyOrMissing ==
    (pc \notin {"fetch", "process"} /\ HasList(weather_data)
        /\ \A i \in 1..Len(weather_data.list) : WellFormedButWeather(weather_data.list[i]))
        => /\ processed_data.type = "tuple"
           /\ Len(processed_data.items[6]) = Len(weather_data.list)
           /\ \A i \in 1..Len(weather_data.list) :
                 processed_data.items[6][i] = PrescribedLabel(weather_data.list[i])

AllEmptyConditions(d) ==
    /\ HasList(d)
    /\ Len(d.list) > 0
    /\ \A i \in 1..Len(d.list) :
          /\ "weather" \in d.list[i].keys
          /\ d.list[i].weather.type = "list"
          /\ Len(d.list[i].weather.items) = 0

C4_FetchNeverRaises ==
    /\ nRequests <= 1
    /\ Fetched => nRequests = 1
    /\ FetchFailed
          => /\ pc # "crashed"
             /\ uncaught = ""
             /\ weather_data.type = "NoneType"
             /\ Len(SelectSeq(stdout, IsFetchDiagnostic)) = 1

C4_Witness ==
    /\ FetchFailed
    /\ FailureClass(server) = "decode"
    /\ weather_data.type = "NoneType"
    /\ pc = "done"

\* C5: each of the five failure classes is reported through its own
\* diagnostic branch; a decode failure is never reported by the generic
\* request-failure branch.
C5_FailuresReportedByOwnBranch ==
    FetchFailed => SelectSeq(stdout, IsFetchDiagnostic) = <<BranchOf(FailureClass(server))>>

\* C6: no exception propagates past main for any parsed API response,
\* malformed forecast entries included.
C6_NoExceptionEscapesMain ==
    pc # "crashed" /\ uncaught = ""

\* C7: the run ends without writing a chart when credential resolution fails,
\* when the city name is unset or empty, when the network call fails (HTTP 404
\* also prints the location-not-found diagnostic) or when the response lacks
\* the forecast list; after a failed stage no later stage is executed.
C7_EarlyTerminationWithoutCharts ==
    /\ pc = "exited"
          => ~Fetched /\ nRequests = 0 /\ ~Transformed /\ NothingRendered
    /\ (city_name.type # "unbound" /\ ~Truthy(city_name))
          => pc = "done" /\ ~Fetched /\ nRequests = 0 /\ ~Transformed /\ NothingRendered
    /\ FetchFailed
          => /\ pc \in {"process", "done"}
             /\ ~Transformed
             /\ NothingRendered
             /\ FailureClass(server) = "not_found" => "http_404" \in SeqRange(stdout)
    /\ (Fetched /\ FailureClass(server) = "none" /\ ~HasList(server.json))
          => /\ pc \in {"process", "done"}
             /\ NothingRendered
             /\ pc = "done" => processed_data.type \in {"unbound", "NoneType"}

C7_Witness ==
    /\ pc = "done"
    /\ Fetched
    /\ server.status = 404
    /\ "http_404" \in SeqRange(stdout)
    /\ files = {}

\* key is line with the whitespace at both ends removed
IsTrimOf(key, line) ==
    \E i \in 1..(Len(line) + 1), j \in 0..Len(line) :
        /\ key = SubSeq(line, i, j)
        /\ \A k \in 1..Len(line) : (k < i \/ k > j) => line[k] \in Whitespace
        /\ key # <<>> => (key[1] \notin Whitespace /\ key[Len(key)] \notin Whitespace)

KeyFromEnvironment == Truthy(environ.OPENWEATHERMAP_API_KEY)

\* C8: get_api_key never returns an empty string: it returns the environment
\* value when non-empty, else the trimmed input when non-empty; when both are
\* empty the program terminates and no request is ever issued.
C8_ApiKeyNeverEmpty ==
    /\ api_key.type # "unbound"
          => /\ Truthy(api_key)
             /\ IF KeyFromEnvironment
                THEN api_key = environ.OPENWEATHERMAP_API_KEY /\ stdin.type = "NoneType"
                ELSE stdin.type = "str" /\ IsTrimOf(api_key.chars, stdin.chars)
    /\ (pc # "get_api_key" /\ ~KeyFromEnvironment /\ IsTrimOf(<<>>, stdin.chars))
          => pc = "exited"
    /\ pc = "exited" => (api_key.type = "unbound" /\ nRequests = 0 /\ ~Fetched)
    /\ pc \notin {"get_api_key", "exited"} => api_key.type = "str"
    /\ nRequests > 0 => Truthy(api_key)

C8_Witness ==
    /\ ~KeyFromEnvironment
    /\ stdin = Str(<<" ", "K", " ">>)
    /\ api_key = Str(<<"K">>)
    /\ nRequests = 1

AllWellFormed(d) ==
    HasList(d) /\ \A i \in 1..Len(d.list) : MissingKey(d.list[i]) = ""

\* C9: for a response with N well-formed entries the six sequences have length
\* N each, element i of each is derived from entry i (source order kept), and
\* the temperature chart receives the temperatures in that order.
C9_SixAlignedSequences ==
    (pc \notin {"fetch", "process"} /\ AllWellFormed(weather_data))
        => /\ processed_data.type = "tuple"
           /\ Len(processed_data.items) = 6
           /\ \A c \in 1..6 : Len(processed_data.items[c]) = Len(weather_data.list)
           /\ \A i \in 1..Len(weather_data.list) :
                 LET e == weather_data.list[i]
                 IN /\ processed_data.items[1][i].local = e.dt + TZOffsetSeconds
                    /\ processed_data.items[2][i] = e.main.temp
                    /\ processed_data.items[3][i] = e.main.feels_like
                    /\ processed_data.items[4][i] = e.main.humidity
                    /\ processed_data.items[5][i] = e.wind.speed
                    /\ processed_data.items[6][i] =
                          IF e.weather.type = "list" /\ Len(e.weather.items) > 0
                          THEN e.weather.items[1].main ELSE "N/A"
           /\ Len(plotCalls) >= 1
                 => /\ plotCalls[1].op = "temperature"
                    /\ plotCalls[1].temps = [i \in 1..Len(weather_data.list) |-> weather_data.list[i].main.temp]

C9_Witness ==
    /\ AllWellFormed(weather_data)
    /\ Len(weather_data.list) = 3
    /\ Len(plotCalls) >= 1
    /\ plotCalls[1].temps = <<10, 12, 9>>
    /\ processed_data.items[6] = <<"Rain", "Clear", "N/A">>

Rendering == pc \in {"plot_temperature", "plot_humidity", "plot_wind", "plot_pie"}

====
